---- MODULE Spec2Model ----
(***************************************************************************)
(* Halting analysis of a federated quorum network                          *)
(* (src/src/util/HaltingAnalysis.ts).                                      *)
(*                                                                         *)
(* One call of haltingAnalysis(nodes, numberOfNodesToTest) is modelled as  *)
(* a state machine: the argument check, createAnalysisStructure (the       *)
(* recursion generateNode / generateQuorumset with an explicit call        *)
(* stack), and the forEach over analysisNodes with one pass per candidate  *)
(* (reset, halt, the recursion checkDependents with an explicit call       *)
(* stack, the record of a failure case).                                   *)
(*                                                                         *)
(* Representation.  A NetworkGraphNode is [node, distance, qset]; a        *)
(* NetworkQuorumSet is [t, v].  An element of v that is a string s is the  *)
(* record [ref |-> s]; an element that is a quorum set is a record [t, v]. *)
(* A NetworkGraphNode object is identified by its index in nodes (two      *)
(* objects with the same id are different objects).  An AnalysisNode is    *)
(* [name, live, quorumSet, dependentsNames, networkObject] with            *)
(* quorumSet = [threshold, dependencies]; a dependency that is a string s  *)
(* is [ref |-> s], one that is an AnalysisQuorumSet is a record            *)
(* [threshold, dependencies].                                              *)
(***************************************************************************)
EXTENDS Integers, Sequences, FiniteSets, TLC

\* ------------------------------------------------------------------------
\* Bounds of the model
\* ------------------------------------------------------------------------

\* Most nodes of an enumerated input collection.
MaxNodes == 2

\* Most quorum references (leaves) of an enumerated input collection, all
\* quorum sets together.
MaxEdges == 2

\* Largest threshold of an enumerated quorum set.
MaxThreshold == 2

\* Largest numberOfNodesToTest the call is made with.
MaxFault == 2

\* ------------------------------------------------------------------------
\* Helpers on sequences
\* ------------------------------------------------------------------------

\* Array.prototype.find on a predicate given as the set of matching indices:
\* the least matching index, 0 for undefined.
FindFirst(matching) ==
    IF matching = {} THEN 0
    ELSE CHOOSE i \in matching : \A j \in matching : i <= j

Range(s) == { s[i] : i \in DOMAIN s }

SeqsUpTo(S, k) == UNION { [1..m -> S] : m \in 0..k }

\* ------------------------------------------------------------------------
\* Input collections
\* ------------------------------------------------------------------------

Names == <<"a", "b", "c", "d">>

Unknown == "zz"

Str(s) == [ref |-> s]

QS(t, v) == [t |-> t, v |-> v]

Node(id, d, q) == [node |-> id, distance |-> d, qset |-> q]

Refs(ids) == [i \in DOMAIN ids |-> Str(ids[i])]

\* The collections of exactly n nodes named Names[1..n], in that order, with
\* flat quorum sets: thresholds from ts, distances from ds, references from
\* ids, at most e references in all.
RECURSIVE Collections(_, _, _, _, _)
Collections(n, e, ts, ds, ids) ==
    IF n = 0 THEN { <<>> }
    ELSE UNION { { Append(rest, Node(Names[n], d, QS(t, v))) :
                     rest \in Collections(n - 1, e - Len(v), ts, ds, ids),
                     t \in ts, d \in ds } :
                 v \in SeqsUpTo({ Str(x) : x \in ids }, e) }

NamesUpTo(n) == { Names[i] : i \in 1..n }

\* Valid collections: the first node is the home node, every reference is
\* resolvable.
ValidInputs ==
    UNION { { <<Node(Names[1], 0, c[1].qset)>> \o SubSeq(c, 2, n) :
                c \in Collections(n, MaxEdges, 0..MaxThreshold, {1}, NamesUpTo(n)) } :
            n \in 1..MaxNodes }

\* Collections with any number of distance-0 nodes and with references that
\* may be unknown; every threshold is 1.
OddInputs ==
    UNION { Collections(n, 2, {1}, {0, 1}, NamesUpTo(n) \cup {Unknown}) :
            n \in 0..MaxNodes }

Leaf == QS(0, <<>>)

\* spec.md section 8, Scenario A.
ScenarioA ==
    << Node("H", 0, QS(2, Refs(<<"A", "B", "C">>))),
       Node("A", 1, Leaf), Node("B", 1, Leaf), Node("C", 1, Leaf) >>

\* spec.md section 8, Scenario B.
ScenarioB ==
    << Node("H", 0, QS(1, Refs(<<"A">>))),
       Node("A", 1, Leaf), Node("B", 1, Leaf) >>

\* A home node whose only entry is a nested requirement of threshold 2.
NestedAB ==
    << Node("H", 0, QS(1, << QS(2, Refs(<<"A", "B">>)) >>)),
       Node("A", 1, Leaf), Node("B", 1, Leaf) >>

\* Two nested requirements, each satisfied by one of its two leaves.
NestedPairs ==
    << Node("H", 0, QS(2, << QS(1, Refs(<<"A", "B">>)), QS(1, Refs(<<"B", "C">>)) >>)),
       Node("A", 1, QS(1, Refs(<<"C">>))), Node("B", 1, Leaf), Node("C", 1, Leaf) >>

\* A chain H -> A -> B -> C: failing C takes everything down.
Chain ==
    << Node("H", 0, QS(1, Refs(<<"A">>))), Node("A", 1, QS(1, Refs(<<"B">>))),
       Node("B", 2, QS(1, Refs(<<"C">>))), Node("C", 3, Leaf) >>

\* A cycle through the home node, with a self reference.
Ring ==
    << Node("H", 0, QS(2, Refs(<<"A", "H">>))), Node("A", 1, QS(1, Refs(<<"B">>))),
       Node("B", 2, QS(1, Refs(<<"H", "B">>))) >>

\* A diamond: two paths from the home node to the same node.
Diamond ==
    << Node("H", 0, QS(2, Refs(<<"A", "B">>))), Node("A", 1, QS(1, Refs(<<"C", "C">>))),
       Node("B", 1, QS(2, Refs(<<"C", "A">>))), Node("C", 2, QS(-1, <<>>)) >>

\* B dies only once both A and C are dead, and A is evaluated before that.
LateDeath ==
    << Node("H", 0, QS(3, Refs(<<"A", "B", "C">>))),
       Node("A", 1, QS(1, Refs(<<"C">>))), Node("B", 1, QS(1, Refs(<<"A", "C", "H">>))),
       Node("C", 1, QS(-1, Refs(<<"A">>))) >>

\* Failing C: B is evaluated while A is live, and again once A is dead; the
\* home node and D stay live.
EarlyEvaluation ==
    << Node("H", 0, QS(1, Refs(<<"B", "D">>))), Node("B", 1, QS(1, Refs(<<"C", "A">>))),
       Node("C", 2, QS(-1, <<>>)), Node("A", 2, QS(1, Refs(<<"C">>))),
       Node("D", 1, QS(1, Refs(<<"C", "D">>))) >>

\* Two input nodes with the same id; the second is the home node.
SameId ==
    << Node("A", 1, QS(1, Refs(<<"B">>))), Node("A", 0, QS(1, Refs(<<"A", "B">>))),
       Node("B", 1, Leaf), Node("B", 1, QS(1, Refs(<<"A">>))) >>

\* A bad reference below a nested requirement of a node the home node reaches.
NestedBadRef ==
    << Node("H", 0, QS(1, Refs(<<"A">>))),
       Node("A", 1, QS(1, << QS(1, Refs(<<"A", "Q">>)) >>)) >>

\* v lists that mix strings and quorum sets.
MixedStringFirst ==
    << Node("H", 0, QS(1, << Str("A"), QS(1, Refs(<<"A">>)) >>)), Node("A", 1, Leaf) >>

MixedSetFirst ==
    << Node("H", 0, QS(1, << QS(1, Refs(<<"A">>)), Str("A") >>)), Node("A", 1, Leaf) >>

Scenarios ==
    { ScenarioA, ScenarioB, NestedAB, NestedPairs, Chain, Ring, Diamond, LateDeath,
      EarlyEvaluation, SameId, NestedBadRef, MixedStringFirst, MixedSetFirst }

Inputs == ValidInputs \cup OddInputs \cup Scenarios

FaultSizes == 0..MaxFault

\* ------------------------------------------------------------------------
\* State
\* ------------------------------------------------------------------------

VARIABLES
    nodes,                \* the argument nodes: NetworkGraphNode[]
    numberOfNodesToTest,  \* the argument numberOfNodesToTest
    pc,                   \* where the call is
    error,                \* the kind of the Error thrown, "" while none is
    result,               \* <<>> until the call returns, then <<failureCases>>
    entryCache,           \* createAnalysisStructure: the Map, in insertion order
    genStack,             \* the active generateQuorumset calls, innermost last
    root,                 \* the name of the root AnalysisNode, "" until it is known
    analysisNodes,        \* haltingAnalysis: the entries array
    passIdx,              \* the index of the forEach over analysisNodes
    deadNodes,            \* the pass's deadNodes (indices of NetworkGraphNodes)
    depStack,             \* the active checkDependents calls, innermost last
    failureCases,         \* haltingAnalysis: failureCases
    passLog               \* history: what each finished pass ended with

vars == << nodes, numberOfNodesToTest, pc, error, result, entryCache, genStack, root,
           analysisNodes, passIdx, deadNodes, depStack, failureCases, passLog >>

args == << nodes, numberOfNodesToTest >>

buildVars == << entryCache, genStack, root >>

passVars == << analysisNodes, passIdx, deadNodes, depStack, failureCases, passLog >>

\* ------------------------------------------------------------------------
\* createAnalysisStructure
\* ------------------------------------------------------------------------

\* typeof e == "string"
IsString(e) == "ref" \in DOMAIN e

\* isNested(set.v): typeof set[0] != "string" (set[0] of [] is undefined).
isNested(v) == IF Len(v) = 0 THEN TRUE ELSE ~IsString(v[1])

\* FindHome with a fallback to the first node when no node has distance 0.
FindHomeOrFirst(ns) ==
    IF ns = <<>> THEN 0
    ELSE FindFirst({ i \in DOMAIN ns : ns[i].distance = 0 } \cup
                   { i \in DOMAIN ns : \A j \in DOMAIN ns : ns[j].distance # 0 })

\* nodes.find(n => n.distance == 0): the index found, 0 for undefined.
FindHome(ns) == FindFirst({ i \in DOMAIN ns : ns[i].distance = 0 })

\* nodes.find(n => n.node == dependentName): the index found, 0 for undefined.
FindNamed(ns, name) == FindFirst({ i \in DOMAIN ns : ns[i].node = name })

\* entryCache.get(name): the position of the entry in the Map, 0 for undefined.
CacheGet(cache, name) == FindFirst({ i \in DOMAIN cache : cache[i].name = name })

\* The AnalysisNode generateNode creates for the NetworkGraphNode nodes[idx].
NewEntry(ns, idx) ==
    [ networkObject   |-> idx,
      name            |-> ns[idx].node,
      live            |-> TRUE,
      quorumSet       |-> [threshold |-> ns[idx].qset.t, dependencies |-> <<>>],
      dependentsNames |-> <<>> ]

\* Register putting the new entry before the others.
RegisterFirst(cache, entry) == << entry >> \o cache

\* Register that forgets the entry (the node is not in the Map while its
\* quorum set is walked).
RegisterNothing(cache, entry) == cache

\* entryCache.set(entry.name, entry), line 64, for a name the Map does not
\* hold: the entry goes last in the Map's order.
Register(cache, entry) == Append(cache, entry)

\* entry.quorumSet.dependencies.push(depNode.name)
PushDependency(cache, entryName, depName) ==
    LET k == CacheGet(cache, entryName) IN
    [cache EXCEPT ![k].quorumSet.dependencies = Append(@, Str(depName))]

\* PushDependent that records no backward edge.
PushDependentNothing(cache, entryName, depName) == cache

\* depNode.dependentsNames.push(entry.name)
PushDependent(cache, entryName, depName) ==
    LET k == CacheGet(cache, depName) IN
    [cache EXCEPT ![k].dependentsNames = Append(@, entryName)]

\* The two pushes that follow generateNode(dependentNetworkNode).
RecordEdge(cache, entryName, depName) ==
    PushDependent(PushDependency(cache, entryName, depName), entryName, depName)

\* A generateQuorumset(set, entry) call at element i of set.v; byNode tells the
\* call generateNode makes (on node.qset) from the ones the walk of a nested
\* list makes.
GenFrame(entryName, set, byNode) ==
    [entry |-> entryName, set |-> set, i |-> 1, byNode |-> byNode]

Top(stack) == stack[Len(stack)]

Pop(stack) == SubSeq(stack, 1, Len(stack) - 1)

\* The caller's forEach goes on to its next element.
Advance(stack) == [stack EXCEPT ![Len(stack)].i = @ + 1]

\* The messages of the Errors thrown (lines 45, 77, 109); TypeError is the
\* engine's own error on reading a property of undefined.
NoHomeError == "No node with distance 0 in halting analysis"

BadGraphError == "Bad network graph: no node named"

UnsupportedError == "Halting analysis only supports order 1 at this point"

TypeError == "TypeError"

Throw(kind) ==
    /\ pc' = "threw"
    /\ error' = kind

Init ==
    /\ nodes \in Inputs
    /\ numberOfNodesToTest \in FaultSizes
    /\ pc = "start"
    /\ error = ""
    /\ result = <<>>
    /\ entryCache = <<>>
    /\ genStack = <<>>
    /\ root = ""
    /\ analysisNodes = <<>>
    /\ passIdx = 0
    /\ deadNodes = <<>>
    /\ depStack = <<>>
    /\ failureCases = <<>>
    /\ passLog = <<>>

\* Supported with the test written as an upper limit.
SupportedUpToOne(n) == n <= 1

\* Line 108, negated: the fault-set sizes the analysis supports.
Supported(n) == n = 1

\* haltingAnalysis, lines 108-111: the check of numberOfNodesToTest.
haltingAnalysis ==
    /\ pc = "start"
    /\ IF ~Supported(numberOfNodesToTest)
       THEN Throw(UnsupportedError)
       ELSE pc' = "create" /\ error' = error
    /\ UNCHANGED << args, result, buildVars, passVars >>

\* createAnalysisStructure, lines 43-66: find the home node and begin
\* generateNode(myNode).
createAnalysisStructure ==
    /\ pc = "create"
    /\ LET myNode == FindHome(nodes) IN
       IF myNode = 0
       THEN /\ Throw(NoHomeError)
            /\ UNCHANGED buildVars
       ELSE /\ pc' = "generate"
            /\ error' = error
            /\ entryCache' = Register(entryCache, NewEntry(nodes, myNode))
            /\ genStack' = << GenFrame(nodes[myNode].node, nodes[myNode].qset, TRUE) >>
            /\ root' = root
    /\ UNCHANGED << args, result, passVars >>

\* generateQuorumset, lines 68-84: one iteration of a forEach over set.v.
generateQuorumset ==
    /\ pc = "generate"
    /\ genStack # <<>>
    /\ Top(genStack).i <= Len(Top(genStack).set.v)
    /\ LET f == Top(genStack)
           e == f.set.v[f.i]
           found == FindNamed(nodes, e.ref)
       IN
       IF isNested(f.set.v)
       THEN IF IsString(e)
            THEN \* generateQuorumset of a string: set.v is undefined
                 /\ Throw(TypeError)
                 /\ UNCHANGED buildVars
            ELSE /\ genStack' = Append(genStack, GenFrame(f.entry, e, FALSE))
                 /\ UNCHANGED << pc, error, entryCache, root >>
       ELSE IF ~IsString(e) \/ found = 0
            THEN /\ Throw(BadGraphError)
                 /\ UNCHANGED buildVars
            ELSE IF CacheGet(entryCache, nodes[found].node) # 0
                 THEN \* generateNode returns the cached entry
                      /\ entryCache' = RecordEdge(entryCache, f.entry, nodes[found].node)
                      /\ genStack' = Advance(genStack)
                      /\ UNCHANGED << pc, error, root >>
                 ELSE /\ entryCache' = Register(entryCache, NewEntry(nodes, found))
                      /\ genStack' = Append(genStack,
                             GenFrame(nodes[found].node, nodes[found].qset, TRUE))
                      /\ UNCHANGED << pc, error, root >>
    /\ UNCHANGED << args, result, passVars >>

\* generateQuorumset returns (its forEach is over); when generateNode made the
\* call, generateNode returns too (line 87), to the leaf iteration that called
\* it (lines 81-82) or to createAnalysisStructure (lines 49, 90).
generateReturn ==
    /\ pc = "generate"
    /\ genStack # <<>>
    /\ Top(genStack).i > Len(Top(genStack).set.v)
    /\ LET f == Top(genStack)
           rest == Pop(genStack)
       IN
       IF ~f.byNode
       THEN /\ genStack' = Advance(rest)
            /\ UNCHANGED << pc, entryCache, root, analysisNodes, passIdx >>
       ELSE IF rest # <<>>
            THEN /\ entryCache' = RecordEdge(entryCache, Top(rest).entry, f.entry)
                 /\ genStack' = Advance(rest)
                 /\ UNCHANGED << pc, root, analysisNodes, passIdx >>
            ELSE /\ genStack' = rest
                 /\ root' = f.entry
                 /\ analysisNodes' = entryCache
                 /\ entryCache' = entryCache
                 /\ passIdx' = 1
                 /\ pc' = "forEach"
    /\ UNCHANGED << args, error, result, deadNodes, depStack, failureCases, passLog >>

\* ------------------------------------------------------------------------
\* haltingAnalysis: the passes
\* ------------------------------------------------------------------------

\* getNode(name): analysisNodes.find(n => n.name == name), as a position.
getNode(an, name) == FindFirst({ i \in DOMAIN an : an[i].name = name })

\* isQuorumSet(n): n.threshold !== undefined
isQuorumSet(n) == "threshold" \in DOMAIN n

\* Met with the comparison off by one.
MetStrict(threshold) == threshold < 0

\* Line 170: what is left of the threshold decides.
Met(threshold) == threshold <= 0

\* quorumSetMeetsThreshold(quorum), lines 154-171, on the analysis nodes an
\* and the deadNodes list dead: [ok |-> the value returned, deadNodes |-> the
\* list after the call].
RECURSIVE quorumSetMeetsThreshold(_, _, _)
quorumSetMeetsThreshold(quorum, an, dead) ==
    LET RECURSIVE forEach(_, _, _)
        forEach(i, threshold, d) ==
            IF i > Len(quorum.dependencies)
            THEN [ok |-> Met(threshold), deadNodes |-> d]
            ELSE LET dependent == quorum.dependencies[i] IN
                 IF isQuorumSet(dependent)
                 THEN LET r == quorumSetMeetsThreshold(dependent, an, d) IN
                      forEach(i + 1, IF r.ok THEN threshold - 1 ELSE threshold,
                              r.deadNodes)
                 ELSE LET dependentNode == an[getNode(an, dependent.ref)] IN
                      IF dependentNode.live
                      THEN forEach(i + 1, threshold - 1, d)
                      ELSE forEach(i + 1, threshold,
                                   Append(d, dependentNode.networkObject))
    IN forEach(1, quorum.threshold, dead)

\* reset that leaves the live flags as they are.
resetNothing(an) == an

\* reset that empties the dependents lists as well.
resetEntries(an) ==
    [i \in DOMAIN an |-> [an[i] EXCEPT !.live = TRUE, !.dependentsNames = <<>>]]

\* reset(nodes), lines 94-96.
reset(an) == [i \in DOMAIN an |-> [an[i] EXCEPT !.live = TRUE]]

\* Dedup that hands the list back as it is.
DedupNothing(list) == list

\* Array.from(new Set(list)): the first occurrence of each element, in order.
RECURSIVE Dedup(_)
Dedup(list) ==
    IF list = <<>> THEN <<>>
    ELSE LET front == Dedup(SubSeq(list, 1, Len(list) - 1))
             last == list[Len(list)]
         IN IF last \in Range(front) THEN front ELSE Append(front, last)

\* HomeHalted testing for any dead node instead of the root.
AnyHalted(an, rootName) == \E i \in DOMAIN an : ~an[i].live

\* The condition of line 173 under which a failure case is recorded.
HomeHalted(an, rootName) == ~an[getNode(an, rootName)].live

\* FailureCase that leaves the halted node out of affectedNodes.
FailureCaseConsequencesOnly(nodeToHalt, dead) ==
    [vulnerableNodes |-> << nodeToHalt.networkObject >>,
     affectedNodes |-> SelectSeq(dead, LAMBDA o : o # nodeToHalt.networkObject)]

\* The failure case of lines 175-178.
FailureCase(nodeToHalt, dead) ==
    [vulnerableNodes |-> << nodeToHalt.networkObject >>, affectedNodes |-> dead]

DeadNames(an) == { an[i].name : i \in { j \in DOMAIN an : ~an[j].live } }

\* StillLive that takes every dependent for live.
StillLiveAlways(dependentNode) == TRUE

\* Line 138: only a dependent that is live is evaluated.
StillLive(dependentNode) == dependentNode.live

\* DepFrame that starts at the second dependent.
DepFrameSkippingFirst(name) == [node |-> name, i |-> 2]

\* A checkDependents(deadNode) call at element i of deadNode.dependentsNames.
DepFrame(name) == [node |-> name, i |-> 1]

\* The forEach of line 118 is over: return failureCases (line 181).
returnFailureCases ==
    /\ pc = "forEach"
    /\ passIdx > Len(analysisNodes)
    /\ pc' = "returned"
    /\ result' = << failureCases >>
    /\ UNCHANGED << args, error, buildVars, passVars >>

\* Line 119: the root is no candidate.
skipRoot ==
    /\ pc = "forEach"
    /\ passIdx <= Len(analysisNodes)
    /\ analysisNodes[passIdx].name = root
    /\ passIdx' = passIdx + 1
    /\ UNCHANGED << args, pc, error, result, buildVars, analysisNodes, deadNodes,
                    depStack, failureCases, passLog >>

\* Lines 121-123: a pass begins with reset and an empty deadNodes.
beginPass ==
    /\ pc = "forEach"
    /\ passIdx <= Len(analysisNodes)
    /\ analysisNodes[passIdx].name # root
    /\ analysisNodes' = reset(analysisNodes)
    /\ deadNodes' = <<>>
    /\ pc' = "halt"
    /\ UNCHANGED << args, error, result, buildVars, passIdx, depStack, failureCases,
                    passLog >>

\* Lines 125-126: the candidate is halted and checkDependents is called on it.
haltNode ==
    /\ pc = "halt"
    /\ analysisNodes' = [analysisNodes EXCEPT ![passIdx].live = FALSE]
    /\ depStack' = << DepFrame(analysisNodes[passIdx].name) >>
    /\ pc' = "checkDependents"
    /\ UNCHANGED << args, error, result, buildVars, passIdx, deadNodes, failureCases,
                    passLog >>

\* checkDependents, lines 133-145: one iteration of the forEach over
\* deadNode.dependentsNames.
checkDependents ==
    /\ pc = "checkDependents"
    /\ depStack # <<>>
    /\ LET f == Top(depStack)
           deadNode == analysisNodes[getNode(analysisNodes, f.node)]
       IN
       /\ f.i <= Len(deadNode.dependentsNames)
       /\ LET k == getNode(analysisNodes, deadNode.dependentsNames[f.i])
              dependentNode == analysisNodes[k]
              met == quorumSetMeetsThreshold(dependentNode.quorumSet, analysisNodes,
                                             deadNodes)
          IN
          IF ~StillLive(dependentNode)
          THEN /\ depStack' = Advance(depStack)
               /\ UNCHANGED << analysisNodes, deadNodes >>
          ELSE IF met.ok
               THEN /\ depStack' = Advance(depStack)
                    /\ deadNodes' = met.deadNodes
                    /\ UNCHANGED analysisNodes
               ELSE /\ analysisNodes' = [analysisNodes EXCEPT ![k].live = FALSE]
                    /\ deadNodes' = Append(met.deadNodes, dependentNode.networkObject)
                    /\ depStack' = Append(depStack, DepFrame(dependentNode.name))
    /\ UNCHANGED << args, pc, error, result, buildVars, passIdx, failureCases, passLog >>

\* checkDependents returns: to the iteration that called it (line 143), or to
\* the pass (line 126).
checkDependentsReturn ==
    /\ pc = "checkDependents"
    /\ depStack # <<>>
    /\ LET f == Top(depStack)
           deadNode == analysisNodes[getNode(analysisNodes, f.node)]
       IN f.i > Len(deadNode.dependentsNames)
    /\ IF Len(depStack) > 1
       THEN depStack' = Advance(Pop(depStack)) /\ pc' = pc
       ELSE depStack' = <<>> /\ pc' = "record"
    /\ UNCHANGED << args, error, result, buildVars, analysisNodes, passIdx, deadNodes,
                    failureCases, passLog >>

\* Lines 173-179: the end of the pass.
recordFailure ==
    /\ pc = "record"
    /\ LET nodeToHalt == analysisNodes[passIdx] IN
       /\ IF HomeHalted(analysisNodes, root)
          THEN /\ deadNodes' = Dedup(deadNodes)
               /\ failureCases' =
                      Append(failureCases, FailureCase(nodeToHalt, Dedup(deadNodes)))
          ELSE UNCHANGED << deadNodes, failureCases >>
       /\ passLog' = Append(passLog,
              [ halted   |-> nodeToHalt.name,
                dead     |-> DeadNames(analysisNodes),
                rootDead |-> \E i \in DOMAIN analysisNodes :
                                 analysisNodes[i].name = root /\ ~analysisNodes[i].live,
                cases    |-> Len(failureCases'),
                casualties |-> deadNodes ])
    /\ passIdx' = passIdx + 1
    /\ pc' = "forEach"
    /\ UNCHANGED << args, error, result, buildVars, analysisNodes, depStack >>

Next ==
    \/ haltingAnalysis
    \/ createAnalysisStructure
    \/ generateQuorumset
    \/ generateReturn
    \/ returnFailureCases
    \/ skipRoot
    \/ beginPass
    \/ haltNode
    \/ checkDependents
    \/ checkDependentsReturn
    \/ recordFailure

Spec == Init /\ [][Next]_vars

\* ------------------------------------------------------------------------
\* Vocabulary of the properties
\* ------------------------------------------------------------------------

\* A pass is under way.
InPass == pc \in {"halt", "checkDependents", "record"}

\* createAnalysisStructure has returned.
Built == pc \in {"forEach", "halt", "checkDependents", "record", "returned"}

\* The ids a quorum set references, at any depth.
RECURSIVE Leaves(_)
Leaves(set) ==
    UNION { IF IsString(set.v[i]) THEN { set.v[i].ref } ELSE Leaves(set.v[i]) :
            i \in DOMAIN set.v }

InputIds(ns) == { ns[i].node : i \in DOMAIN ns }

DistanceZero(ns) == { i \in DOMAIN ns : ns[i].distance = 0 }

\* Some quorum-set entry of the input references an id that is not in it.
HasUnknownRef(ns) == \E i \in DOMAIN ns : ~(Leaves(ns[i].qset) \subseteq InputIds(ns))

\* Every list v is all strings or all quorum sets, at any depth.
RECURSIVE Homogeneous(_)
Homogeneous(set) ==
    /\ \A i \in DOMAIN set.v : IsString(set.v[i]) = IsString(set.v[1])
    /\ \A i \in DOMAIN set.v : IsString(set.v[i]) \/ Homogeneous(set.v[i])

\* spec.md section 3: exactly one distance-0 node, every reference resolvable.
ValidInput(ns) ==
    /\ Cardinality(DistanceZero(ns)) = 1
    /\ ~HasUnknownRef(ns)
    /\ \A i \in DOMAIN ns : Homogeneous(ns[i].qset)

EntryNames == { analysisNodes[i].name : i \in DOMAIN analysisNodes }

NetworkObjectOf(name) == analysisNodes[getNode(analysisNodes, name)].networkObject

LiveByName(name) == analysisNodes[getNode(analysisNodes, name)].live

\* The number of the failure case pass k recorded, 0 when it recorded none.
CaseOfPass(k) ==
    IF passLog[k].cases > (IF k = 1 THEN 0 ELSE passLog[k - 1].cases)
    THEN passLog[k].cases ELSE 0

\* The nodes that died in pass k as a consequence of the candidate's failure.
Consequences(k) == { NetworkObjectOf(x) : x \in passLog[k].dead \ { passLog[k].halted } }

\* ------------------------------------------------------------------------
\* C1
\* ------------------------------------------------------------------------

\* C1: in every failure case affectedNodes is the set of nodes that die as a
\* consequence of the vulnerable node's failure; for Scenario B the output is
\* exactly one case, vulnerable [A] and affected [H], and B is the vulnerable
\* node of no case.
C1_AffectedAreTheConsequences ==
    /\ \A k \in DOMAIN passLog :
          CaseOfPass(k) # 0 =>
              Range(failureCases[CaseOfPass(k)].affectedNodes) = Consequences(k)
    /\ (pc = "returned" /\ nodes = ScenarioB) =>
          result = << << [vulnerableNodes |-> <<2>>, affectedNodes |-> <<1>>] >> >>
    /\ nodes = ScenarioB =>
          \A c \in DOMAIN failureCases : failureCases[c].vulnerableNodes # <<3>>

\* ------------------------------------------------------------------------
\* C2
\* ------------------------------------------------------------------------

\* The requirement of spec.md section 3 on the quorum set an input node was
\* given: at least t of the entries of v are satisfied, a string when the node
\* it names is live, a nested set when it is satisfied itself (one unit).
RECURSIVE NestedUnitSatisfied(_)
NestedUnitSatisfied(set) ==
    Cardinality({ i \in DOMAIN set.v :
                    IF IsString(set.v[i]) THEN LiveByName(set.v[i].ref)
                    ELSE NestedUnitSatisfied(set.v[i]) }) >= set.t

\* C2: during every pass, what quorumSetMeetsThreshold answers for a node is
\* the nested-unit evaluation of the quorum set the node was given.
C2_NestedUnitSemantics ==
    InPass =>
        \A i \in DOMAIN analysisNodes :
            quorumSetMeetsThreshold(analysisNodes[i].quorumSet, analysisNodes, <<>>).ok
                = NestedUnitSatisfied(nodes[analysisNodes[i].networkObject].qset)

\* ------------------------------------------------------------------------
\* C3
\* ------------------------------------------------------------------------

\* C3: for a valid input the entries createAnalysisStructure returns hold
\* exactly one AnalysisNode per distinct input id: no id twice, none missing.
C3_OneEntryPerInputId ==
    (Built /\ ValidInput(nodes)) =>
        /\ \A i, j \in DOMAIN analysisNodes :
              analysisNodes[i].name = analysisNodes[j].name => i = j
        /\ EntryNames = InputIds(nodes)

\* ------------------------------------------------------------------------
\* C4
\* ------------------------------------------------------------------------

\* The home node's entries are direct references, and whichever other node
\* fails, at least t of them name nodes that cannot die in that pass (another
\* node than the failed one and than the home node, with a threshold <= 0).
HomeTolerant(ns) ==
    /\ FindHome(ns) # 0
    /\ LET home == ns[FindHome(ns)]
           v == home.qset.v
           Sturdy(id) == /\ id # home.node
                         /\ FindNamed(ns, id) # 0
                         /\ ns[FindNamed(ns, id)].qset.t <= 0
       IN /\ \A i \in DOMAIN v : IsString(v[i])
          /\ \A x \in InputIds(ns) \ { home.node } :
                Cardinality({ i \in DOMAIN v : v[i].ref # x /\ Sturdy(v[i].ref) })
                    >= home.qset.t

\* C4: a pass records a failure case, with its candidate as the vulnerable
\* node, exactly when the home node is dead at its end; so a home node whose
\* threshold stays met after any single failure (Scenario A) yields no case.
C4_RecordedIffHomeDead ==
    /\ \A k \in DOMAIN passLog :
          /\ (CaseOfPass(k) # 0) = passLog[k].rootDead
          /\ CaseOfPass(k) # 0 =>
                failureCases[CaseOfPass(k)].vulnerableNodes
                    = << NetworkObjectOf(passLog[k].halted) >>
    /\ Len(failureCases) = (IF passLog = <<>> THEN 0 ELSE passLog[Len(passLog)].cases)
    /\ (pc = "returned" /\ HomeTolerant(nodes)) => result = << <<>> >>

\* Scenario A has run its three passes and returned no failure case.
C4_Witness ==
    /\ pc = "returned"
    /\ nodes = ScenarioA
    /\ Len(passLog) = 3
    /\ result = << <<>> >>

\* ------------------------------------------------------------------------
\* C5
\* ------------------------------------------------------------------------

\* analysisNodes with the live flags set as L says.
WithLiveness(L) ==
    [i \in DOMAIN analysisNodes |-> [analysisNodes[i] EXCEPT !.live = L[i]]]

DirectOnly(quorum) ==
    \A j \in DOMAIN quorum.dependencies : ~isQuorumSet(quorum.dependencies[j])

\* The entries of a requirement of direct references whose node is live.
LiveEntries(quorum, an) ==
    { j \in DOMAIN quorum.dependencies :
        an[getNode(an, quorum.dependencies[j].ref)].live }

\* C5: for every requirement of direct references the analysis graph holds and
\* every liveness assignment, quorumSetMeetsThreshold is true iff the live
\* entries, counted with multiplicity, are at least the threshold; a threshold
\* of 0 or less is always met.
C5_ThresholdOverDirectRefs ==
    pc = "forEach" =>
        \A L \in [DOMAIN analysisNodes -> BOOLEAN] :
            LET an == WithLiveness(L) IN
            \A i \in DOMAIN an :
                LET quorum == an[i].quorumSet
                    ok == quorumSetMeetsThreshold(quorum, an, <<>>).ok
                IN DirectOnly(quorum) =>
                      /\ ok = (Cardinality(LiveEntries(quorum, an)) >= quorum.threshold)
                      /\ quorum.threshold <= 0 => ok

\* A pass has ended with a node dead whose threshold k is over k references of
\* which k - 1 are live.
C5_Witness ==
    /\ pc = "forEach"
    /\ \E i \in DOMAIN analysisNodes :
          LET quorum == analysisNodes[i].quorumSet IN
          /\ ~analysisNodes[i].live
          /\ quorum.threshold >= 2
          /\ Len(quorum.dependencies) = quorum.threshold
          /\ Cardinality(LiveEntries(quorum, analysisNodes)) = quorum.threshold - 1

\* ------------------------------------------------------------------------
\* C6
\* ------------------------------------------------------------------------

\* C6: with a reference to an unknown id anywhere in the input, the analysis
\* aborts with a configuration error and returns no list.
C6_UnknownRefAborts ==
    (numberOfNodesToTest = 1 /\ HasUnknownRef(nodes)) =>
        /\ pc # "returned"
        /\ result = <<>>
        /\ pc = "threw" => error \in { NoHomeError, BadGraphError }

\* ------------------------------------------------------------------------
\* C7
\* ------------------------------------------------------------------------

\* C7: createAnalysisStructure fails unless exactly one node has distance 0;
\* with two or more it picks none of them as home.
C7_ExactlyOneHome ==
    (numberOfNodesToTest = 1 /\ Cardinality(DistanceZero(nodes)) # 1) =>
        /\ pc \in { "start", "create", "threw" }
        /\ entryCache = <<>>
        /\ root = ""

\* ------------------------------------------------------------------------
\* C8
\* ------------------------------------------------------------------------

\* C8: with no node of distance 0 (the empty collection too) and fault-set
\* size 1 the call goes on until it throws the no-home error; it builds
\* nothing and produces no failure case.
C8_NoHomeFails ==
    (numberOfNodesToTest = 1 /\ DistanceZero(nodes) = {}) =>
        /\ pc \in { "start", "create", "threw" }
        /\ pc = "threw" => error = NoHomeError
        /\ pc # "threw" => ENABLED Next
        /\ entryCache = <<>> /\ analysisNodes = <<>>
        /\ failureCases = <<>> /\ result = <<>>

\* The no-home error is thrown for a collection that is not empty.
C8_Witness ==
    /\ pc = "threw"
    /\ error = NoHomeError
    /\ numberOfNodesToTest = 1
    /\ nodes # <<>>

\* ------------------------------------------------------------------------
\* C9
\* ------------------------------------------------------------------------

\* C9: with a fault-set size other than 1 the call throws the unsupported
\* error as its first step: no graph is built, no pass is run, nothing is
\* returned.
C9_UnsupportedFails ==
    numberOfNodesToTest # 1 =>
        /\ pc \in { "start", "threw" }
        /\ pc = "threw" => error = UnsupportedError
        /\ pc = "start" => ENABLED Next
        /\ entryCache = <<>> /\ genStack = <<>> /\ root = ""
        /\ analysisNodes = <<>> /\ passLog = <<>> /\ depStack = <<>>
        /\ failureCases = <<>> /\ result = <<>>

\* Fault-set size 2 on a valid collection (Scenario A) has thrown.
C9_Witness ==
    /\ pc = "threw"
    /\ error = UnsupportedError
    /\ numberOfNodesToTest = 2
    /\ nodes = ScenarioA

\* ------------------------------------------------------------------------
\* C10
\* ------------------------------------------------------------------------

AllLive == \A i \in DOMAIN analysisNodes : analysisNodes[i].live

\* No step but the reset that begins a pass sets a live flag back to true.
NoRevival ==
    pc' # "halt" =>
        \A i \in DOMAIN analysisNodes :
            ~analysisNodes[i].live => ~analysisNodes'[i].live

\* C10: every pass starts with every AnalysisNode live, and within a pass a
\* live flag that is false stays false until the next pass's reset.
C10_LiveResetThenMonotone ==
    [](pc = "halt" => AllLive) /\ [][NoRevival]_vars

\* A pass starts after an earlier pass that left two nodes dead.
C10_Witness ==
    /\ pc = "halt"
    /\ passLog # <<>>
    /\ Cardinality(passLog[Len(passLog)].dead) >= 2

\* ------------------------------------------------------------------------
\* C11
\* ------------------------------------------------------------------------

\* checkDependents(deadNode), lines 132-146, as one call run to its end from
\* element i of deadNode.dependentsNames: the analysis nodes and the deadNodes
\* list it leaves.
RECURSIVE checkDependentsFrom(_, _, _, _)
checkDependentsFrom(an, dead, name, i) ==
    LET deadNode == an[getNode(an, name)] IN
    IF i > Len(deadNode.dependentsNames)
    THEN [an |-> an, deadNodes |-> dead]
    ELSE LET k == getNode(an, deadNode.dependentsNames[i])
             dependentNode == an[k]
             met == quorumSetMeetsThreshold(dependentNode.quorumSet, an, dead)
         IN
         IF ~StillLive(dependentNode)
         THEN checkDependentsFrom(an, dead, name, i + 1)
         ELSE IF met.ok
              THEN checkDependentsFrom(an, met.deadNodes, name, i + 1)
              ELSE LET inner == checkDependentsFrom(
                                    [an EXCEPT ![k].live = FALSE],
                                    Append(met.deadNodes, dependentNode.networkObject),
                                    dependentNode.name, 1)
                   IN checkDependentsFrom(inner.an, inner.deadNodes, name, i + 1)

\* The analysis graph as createAnalysisStructure returns it: every node live.
FreshGraph == [i \in DOMAIN analysisNodes |-> [analysisNodes[i] EXCEPT !.live = TRUE]]

\* The pass of lines 123-126 for the candidate named name, run alone on the
\* fresh graph with an empty deadNodes.
PassAlone(name) ==
    checkDependentsFrom(
        [FreshGraph EXCEPT ![getNode(FreshGraph, name)].live = FALSE], <<>>, name, 1)

\* C11: whatever passes ran before it, a pass ends as it would alone on a
\* fresh graph: the same nodes dead, the same casualty list, a failure case
\* recorded in the same case and with the same affectedNodes.
C11_PassesIndependent ==
    \A k \in DOMAIN passLog :
        LET alone == PassAlone(passLog[k].halted) IN
        /\ passLog[k].dead = DeadNames(alone.an)
        /\ passLog[k].casualties = alone.deadNodes
        /\ (CaseOfPass(k) # 0) = (root \in DeadNames(alone.an))
        /\ CaseOfPass(k) # 0 =>
              failureCases[CaseOfPass(k)].affectedNodes = Dedup(alone.deadNodes)

\* A pass has ended with a node live that an earlier pass, which killed two
\* nodes or more, left dead.
C11_Witness ==
    \E j, k \in DOMAIN passLog :
        /\ j < k
        /\ Cardinality(passLog[j].dead) >= 2
        /\ passLog[j].dead \ passLog[k].dead # {}

\* ------------------------------------------------------------------------
\* C12
\* ------------------------------------------------------------------------

NoRepeat(list) == \A i, j \in DOMAIN list : list[i] = list[j] => i = j

\* C12: no failure case lists a node twice in affectedNodes, neither the same
\* node object nor the same id, however often the pass recorded it.
C12_AffectedNoRepeat ==
    \A c \in DOMAIN failureCases :
        LET affected == failureCases[c].affectedNodes IN
        /\ NoRepeat(affected)
        /\ NoRepeat([i \in DOMAIN affected |-> nodes[affected[i]].node])

\* A pass that recorded a failure case had recorded one node three times: the
\* node is referenced by two evaluated dependents or twice by one requirement.
C12_Witness ==
    \E k \in DOMAIN passLog :
        /\ CaseOfPass(k) # 0
        /\ \E x \in Range(passLog[k].casualties) :
              Cardinality({ i \in DOMAIN passLog[k].casualties :
                              passLog[k].casualties[i] = x }) >= 3

\* ------------------------------------------------------------------------
\* C13
\* ------------------------------------------------------------------------

\* The ids a quorum set references, in listed order, nested lists in place.
RECURSIVE LeafSeq(_)
LeafSeq(set) ==
    LET RECURSIVE from(_)
        from(i) == IF i > Len(set.v) THEN <<>>
                   ELSE (IF IsString(set.v[i]) THEN << set.v[i].ref >>
                         ELSE LeafSeq(set.v[i])) \o from(i + 1)
    IN from(1)

\* The ids in the order a depth-first walk from nodes[idx] first meets them,
\* following the references in listed order; order holds the ids met so far.
RECURSIVE DepthFirst(_, _)
DepthFirst(order, idx) ==
    LET refs == LeafSeq(nodes[idx].qset)
        RECURSIVE follow(_, _)
        follow(o, i) == IF i > Len(refs) THEN o
                        ELSE follow(DepthFirst(o, FindNamed(nodes, refs[i])), i + 1)
    IN IF nodes[idx].node \in Range(order) THEN order
       ELSE follow(Append(order, nodes[idx].node), 1)

\* The position in analysisNodes of the entry of a NetworkGraphNode object.
PositionOf(object) ==
    FindFirst({ i \in DOMAIN analysisNodes : analysisNodes[i].networkObject = object })

\* C13: the analysis nodes are in depth-first order from the home node, and
\* the failure cases follow that order: one vulnerable node each, never the
\* home node, none twice.
C13_CasesInRegistrationOrder ==
    Built =>
        /\ [i \in DOMAIN analysisNodes |-> analysisNodes[i].name]
              = DepthFirst(<<>>, FindHome(nodes))
        /\ \A c \in DOMAIN failureCases :
              LET vulnerable == failureCases[c].vulnerableNodes IN
              /\ Len(vulnerable) = 1
              /\ PositionOf(vulnerable[1]) # 0
              /\ nodes[vulnerable[1]].node # root
              /\ \A d \in DOMAIN failureCases :
                    c < d => PositionOf(vulnerable[1])
                                < PositionOf(failureCases[d].vulnerableNodes[1])

\* The call has returned two cases whose order is not the input's order.
C13_Witness ==
    /\ pc = "returned"
    /\ \E c, d \in DOMAIN failureCases :
          /\ c < d
          /\ failureCases[c].vulnerableNodes[1] > failureCases[d].vulnerableNodes[1]

\* ------------------------------------------------------------------------
\* C14
\* ------------------------------------------------------------------------

\* The steps a generateQuorumset call takes on elements from..Len(set.v) and
\* to return, the walks of its nested lists included, node generation not.
RECURSIVE WalkSteps(_, _)
WalkSteps(set, from) ==
    IF from > Len(set.v) THEN 1
    ELSE 1 + (IF IsString(set.v[from]) THEN 0 ELSE WalkSteps(set.v[from], 1))
           + WalkSteps(set, from + 1)

\* The steps left to the calls that wait for a call they made: each is past
\* its element i.
RECURSIVE WaitingSteps(_)
WaitingSteps(stack) ==
    IF stack = <<>> THEN 0
    ELSE WaitingSteps(Pop(stack)) + WalkSteps(Top(stack).set, Top(stack).i + 1)

\* The steps left to the active calls; the innermost one is at its element i.
StackSteps(stack) ==
    IF stack = <<>> THEN 0
    ELSE WaitingSteps(Pop(stack)) + WalkSteps(Top(stack).set, Top(stack).i)

\* The walks of the quorum sets of the nodes generateNode would build for ids.
RECURSIVE UnbuiltSteps(_)
UnbuiltSteps(ids) ==
    IF ids = {} THEN 0
    ELSE LET id == CHOOSE x \in ids : TRUE IN
         WalkSteps(nodes[FindNamed(nodes, id)].qset, 1) + UnbuiltSteps(ids \ { id })

\* An upper limit of the steps construction still takes: the steps of the
\* active calls and the walk of every node whose id the Map does not hold.
BuildSteps(stack, cache) ==
    StackSteps(stack)
    + UnbuiltSteps(InputIds(nodes) \ { cache[i].name : i \in DOMAIN cache })

ByNodeFrames(stack) == { i \in DOMAIN stack : stack[i].byNode }

\* While the graph is built: the Map holds every id once, every active
\* generateNode call is for an id of its own that the Map holds, and the call
\* can go on.
GenerateBounded ==
    pc = "generate" =>
        /\ \A i, j \in DOMAIN entryCache :
              entryCache[i].name = entryCache[j].name => i = j
        /\ \A i, j \in ByNodeFrames(genStack) :
              genStack[i].entry = genStack[j].entry => i = j
        /\ \A i \in DOMAIN genStack :
              genStack[i].entry \in { entryCache[k].name : k \in DOMAIN entryCache }
        /\ Cardinality(ByNodeFrames(genStack)) <= Cardinality(InputIds(nodes))
        /\ ENABLED Next

\* Every step of the construction that does not end it brings it nearer to
\* its end.
GenerateProgress ==
    (pc = "generate" /\ pc' = "generate") =>
        BuildSteps(genStack', entryCache') < BuildSteps(genStack, entryCache)

\* C14: createAnalysisStructure terminates, cyclic references or not: no id is
\* built twice, the generateNode calls nest no deeper than there are ids, and
\* every step leaves fewer steps to take.
C14_ConstructionTerminates ==
    []GenerateBounded /\ [][GenerateProgress]_vars

\* Construction has returned a graph with a cycle through three nodes, one of
\* which requires itself too.
C14_Witness ==
    /\ pc = "forEach"
    /\ \E x, y, z \in DOMAIN analysisNodes :
          LET Requires(a, b) == Str(analysisNodes[b].name)
                                    \in Range(analysisNodes[a].quorumSet.dependencies)
          IN /\ x # y /\ y # z /\ x # z
             /\ Requires(x, y) /\ Requires(y, z) /\ Requires(z, x) /\ Requires(z, z)

\* ------------------------------------------------------------------------
\* C15
\* ------------------------------------------------------------------------

Dependents(name) == analysisNodes[getNode(analysisNodes, name)].dependentsNames

\* The dependent the innermost checkDependents call is at.
CurrentDependent ==
    analysisNodes[getNode(analysisNodes,
                          Dependents(Top(depStack).node)[Top(depStack).i])]

AtDependent ==
    /\ pc = "checkDependents"
    /\ Top(depStack).i <= Len(Dependents(Top(depStack).node))

\* The steps left to the checkDependents calls that wait for a call they made.
RECURSIVE WaitingChecks(_)
WaitingChecks(stack) ==
    IF stack = <<>> THEN 0
    ELSE WaitingChecks(Pop(stack))
         + Len(Dependents(Top(stack).node)) - Top(stack).i + 1

\* The steps a checkDependents call on each node of the set would take by
\* itself.
RECURSIVE OwnChecks(_)
OwnChecks(S) ==
    IF S = {} THEN 0
    ELSE LET n == CHOOSE x \in S : TRUE IN
         Len(Dependents(n)) + 1 + OwnChecks(S \ { n })

\* An upper limit of the steps the pass still takes: those of the active
\* calls and one call for every node that is live.
PassSteps(stack, an) ==
    WaitingChecks(Pop(stack))
    + Len(Dependents(Top(stack).node)) - Top(stack).i + 2
    + OwnChecks(EntryNames \ DeadNames(an))

\* While a pass propagates: the active checkDependents calls are for dead
\* nodes, each for another, so no deeper than there are analysis nodes, and
\* the pass can go on.
PassBounded ==
    pc = "checkDependents" =>
        /\ Len(depStack) <= Len(analysisNodes)
        /\ \A i, j \in DOMAIN depStack : depStack[i].node = depStack[j].node => i = j
        /\ \A i \in DOMAIN depStack : depStack[i].node \in DeadNames(analysisNodes)
        /\ ENABLED Next

\* A dependent that is dead is skipped; a call is made only for a node that
\* was live and is dead now; every step that does not end the propagation
\* leaves fewer steps to take.
PassProgress ==
    /\ (AtDependent /\ ~CurrentDependent.live) =>
          /\ analysisNodes' = analysisNodes
          /\ deadNodes' = deadNodes
          /\ Len(depStack') = Len(depStack)
    /\ (pc = "checkDependents" /\ Len(depStack') > Len(depStack)) =>
          /\ Top(depStack').node \notin DeadNames(analysisNodes)
          /\ DeadNames(analysisNodes') = DeadNames(analysisNodes) \cup { Top(depStack').node }
    /\ (pc = "checkDependents" /\ pc' = "checkDependents") =>
          PassSteps(depStack', analysisNodes') < PassSteps(depStack, analysisNodes)

\* C15: every pass terminates, cyclic dependents or not: dead dependents are
\* skipped, a node dies at most once, and checkDependents nests no deeper than
\* there are analysis nodes.
C15_PassTerminates ==
    []PassBounded /\ [][PassProgress]_vars

\* A nested checkDependents call is at a dependent that is already dead, the
\* node whose death it follows from: the dependents relation has a cycle.
C15_Witness ==
    /\ AtDependent
    /\ Len(depStack) >= 2
    /\ ~CurrentDependent.live
    /\ \E i \in DOMAIN depStack : depStack[i].node = CurrentDependent.name

\* ------------------------------------------------------------------------
\* C16
\* ------------------------------------------------------------------------

\* The number of times x occurs in list.
Occurrences(list, x) == Cardinality({ j \in DOMAIN list : list[j] = x })

\* The ids node X of the analysis structure depends on, one per dependency.
ForwardNames(X) ==
    [j \in DOMAIN X.quorumSet.dependencies |-> X.quorumSet.dependencies[j].ref]

\* C16: after construction X's requirement references Y exactly as often as
\* Y lists X as a dependent, and as often as Y is a leaf of the quorum set X
\* was built from.
C16_EdgesAgree ==
    Built =>
        \A x, y \in DOMAIN analysisNodes :
            LET X == analysisNodes[x]
                Y == analysisNodes[y]
            IN /\ Occurrences(ForwardNames(X), Y.name)
                     = Occurrences(Y.dependentsNames, X.name)
               /\ Occurrences(ForwardNames(X), Y.name)
                     = Occurrences(LeafSeq(nodes[X.networkObject].qset), Y.name)
               /\ (X.name \in Range(Y.dependentsNames))
                     <=> (Y.name \in Leaves(nodes[X.networkObject].qset))

\* A built structure in which one node references another twice, through a
\* nested set too, and a third node not at all.
C16_Witness ==
    /\ Built
    /\ \E x, y, z \in DOMAIN analysisNodes :
          /\ x # y
          /\ Occurrences(analysisNodes[y].dependentsNames, analysisNodes[x].name) >= 2
          /\ Occurrences(analysisNodes[z].dependentsNames, analysisNodes[x].name) = 0
    /\ \E x \in DOMAIN analysisNodes :
          /\ ~Homogeneous(nodes[analysisNodes[x].networkObject].qset)
             \/ \E i \in DOMAIN nodes[analysisNodes[x].networkObject].qset.v :
                   ~IsString(nodes[analysisNodes[x].networkObject].qset.v[i])
          /\ analysisNodes[x].quorumSet.dependencies # <<>>

\* ------------------------------------------------------------------------
\* C17
\* ------------------------------------------------------------------------

\* What construction fixes of every analysis node: all its fields but live.
Topology(an) ==
    [i \in DOMAIN an |->
        [name |-> an[i].name,
         networkObject |-> an[i].networkObject,
         threshold |-> an[i].quorumSet.threshold,
         dependencies |-> an[i].quorumSet.dependencies,
         dependentsNames |-> an[i].dependentsNames]]

\* A step of a pass leaves the topology, the root and the input as they are.
TopologyKept ==
    Built =>
        /\ Topology(analysisNodes') = Topology(analysisNodes)
        /\ root' = root
        /\ nodes' = nodes

\* C17: once the structure is built no step of a pass changes a node's name,
\* threshold, dependencies or dependentsNames, nor the set of analysis nodes;
\* live flags and the casualty list are all that changes.
C17_TopologyImmutable ==
    [][TopologyKept]_vars

\* All passes are over, one at least recorded a failure case, nodes are
\* left dead, and the structure has backward edges a pass could have lost.
C17_Witness ==
    /\ pc = "returned"
    /\ Len(passLog) >= 2
    /\ failureCases # <<>>
    /\ \E i \in DOMAIN analysisNodes : ~analysisNodes[i].live
    /\ \E i \in DOMAIN analysisNodes : Len(analysisNodes[i].dependentsNames) >= 2

\* ------------------------------------------------------------------------
\* C18
\* ------------------------------------------------------------------------

\* The dependencies of X that are dead now, by position.
DeadRefs(X) ==
    { j \in DOMAIN X.quorumSet.dependencies :
        ~LiveByName(X.quorumSet.dependencies[j].ref) }

\* X's requirement under the liveness of now: as many live dependencies as
\* its threshold asks for.
SatisfiedNow(X) ==
    Len(X.quorumSet.dependencies) - Cardinality(DeadRefs(X)) >= X.quorumSet.threshold

\* C18: when a pass ends, every dead node but the candidate has a
\* requirement that is not satisfied, and every live node with a dead
\* dependency has one that is.
C18_PassEndsInFixpoint ==
    pc = "record" =>
        \A i \in DOMAIN analysisNodes :
            LET X == analysisNodes[i] IN
            /\ (~X.live /\ X.name # analysisNodes[passIdx].name) => ~SatisfiedNow(X)
            /\ (X.live /\ DeadRefs(X) # {}) => SatisfiedNow(X)

\* A pass has ended with a node dead that stands the loss of one dependency,
\* and a node live that has lost one.
C18_Witness ==
    /\ pc = "record"
    /\ \E i \in DOMAIN analysisNodes :
          LET X == analysisNodes[i] IN
          /\ ~X.live
          /\ X.name # analysisNodes[passIdx].name
          /\ Len(X.quorumSet.dependencies) - 1 >= X.quorumSet.threshold
    /\ \E i \in DOMAIN analysisNodes :
          analysisNodes[i].live /\ DeadRefs(analysisNodes[i]) # {}

\* ------------------------------------------------------------------------
\* C19
\* ------------------------------------------------------------------------

\* The network objects of the nodes that were dead when pass k ended.
DeadObjects(k) == { NetworkObjectOf(x) : x \in passLog[k].dead }

C20_CascadesMonotone ==
    \A j, k \in DOMAIN passLog :
        passLog[k].halted \in passLog[j].dead =>
            /\ passLog[k].dead \subseteq passLog[j].dead
            /\ passLog[k].rootDead => passLog[j].rootDead

\* Two passes: the node halted in the second died in the first, took nodes
\* down with it in its own, and fewer than the first did.
C20_Witness ==
    \E j, k \in DOMAIN passLog :
        /\ j < k
        /\ passLog[k].halted \in passLog[j].dead
        /\ Cardinality(passLog[k].dead) >= 2
        /\ passLog[k].dead # passLog[j].dead
        /\ passLog[k].rootDead

====
